---- MODULE Spec2Model ----
(***************************************************************************)
(* A model of the match scraper of src/fetch.py: the __main__ driver, the  *)
(* paging loop fetch_matches and the per-record pipeline process_match     *)
(* (retry loop, dedup on batch_match, filter rules, player encoding, store *)
(* put), together with the workflow_stats ledger kept through sqlite.      *)
(*                                                                         *)
(* Python values are modelled as follows: a dict is a function (record)    *)
(* whose DOMAIN is its key set, a list is a sequence, an unbound local is  *)
(* the empty sequence and a bound one a one-element sequence, an uncaught  *)
(* exception moves pc to "halted" with its type in exc.  Sleeps are        *)
(* counted in hundredths of a second so that 0.05 and 0.1 stay integers.   *)
(***************************************************************************)
EXTENDS Integers, Sequences, FiniteSets, TLC

(***************************************************************************)
(* Bounds of the model.                                                    *)
(***************************************************************************)
\* Match ids known to the upstream are 1..MaxMatchId.
MaxMatchId == 3
\* The upstream returns at most MaxPage match summaries per history page.
MaxPage == 2
\* The driver calls fetch_matches at most MaxCalls times (the code loops forever).
MaxCalls == 2
\* fetch.py line 34 sets the quota to 10; the model scales it down so that a
\* partition can reach it with the few match ids above.
MATCHES_PER_HERO == 2

(***************************************************************************)
(* Program constants.                                                      *)
(***************************************************************************)
\* fetch.py line 117: the retry loop runs while count<10.
RETRY_LIMIT == 10
\* fetch.py line 165: matches shorter than this are rejected.
MIN_DURATION == 1200
\* fetch.py line 233: the largest leaver_status that is still accepted.
MAX_LEAVER == 1
\* return codes of process_match
BAD_MODE == -1
SHORT_DURATION == -2
BAD_LOBBY == -3
NO_PLAYERS == -4
KEY_EXISTS == -32
LEAVER == -43
BAD_HTTP == -44
\* HTTP status values: success, and one representative failure.
HTTP_OK == 200
HTTP_UNAVAILABLE == 503

\* fetch.py line 114, in hundredths of a second.
SLEEP_SCHEDULE == <<5, 10, 100, 1000, 3000, 6000, 30000, 50000, 100000, 200000, 600000>>

\* fetch.py lines 47-77.
PLAYER_FIELDS ==
    << "account_id", "player_slot", "hero_id",
       "item_0", "item_1", "item_2", "item_3", "item_4", "item_5",
       "backpack_0", "backpack_1", "backpack_2",
       "kills", "deaths", "assists", "leaver_status",
       "last_hits", "denies", "gold_per_min", "xp_per_min", "level",
       "hero_damage", "tower_damage", "hero_healing", "gold", "gold_spent",
       "scaled_hero_damage", "scaled_tower_damage", "scaled_hero_healing" >>

\* fetch.py line 157: the game modes that pass the filter.
ALLOWED_MODES ==
    {"All Pick", "Captains Mode", "Random Draft", "Single Draft", "All Random", "Least Played"}

\* fetch.py line 170.
BAD_LOBBIES == {-1, 4, 8}

\* meta.MODE_ENUM (module meta is not part of the sources): game_mode -> name.
MODE_ENUM ==
    [m \in {1, 2, 3, 4, 5, 12, 23} |->
        CASE m = 1 -> "All Pick"
          [] m = 2 -> "Captains Mode"
          [] m = 3 -> "Random Draft"
          [] m = 4 -> "Single Draft"
          [] m = 5 -> "All Random"
          [] m = 12 -> "Least Played"
          [] OTHER -> "Turbo"]

\* meta.HERO_DICT (module meta is not part of the sources): the known hero ids.
HERO_DICT == {1, 2, 79}

Range(s) == {s[i] : i \in DOMAIN s}

Min(S) == CHOOSE x \in S : \A y \in S : x <= y

\* An unbound local (rv, ms) or a None (fetchone's "no row") is the empty
\* sequence, a bound value v is <<v>>.
Unbound == <<>>

Bound(v) == <<v>>

\* No exception.
None == "None"

(***************************************************************************)
(* Python dict helpers.                                                    *)
(***************************************************************************)
\* d.pop(k) for every k of ks: the dict without these keys.
Pop(d, ks) == [k \in DOMAIN d \ ks |-> d[k]]

\* d[k]=v for every k of DOMAIN e: e's entries override d's.
Update(d, e) == [k \in DOMAIN d \cup DOMAIN e |-> IF k \in DOMAIN e THEN e[k] ELSE d[k]]

\* The empty dict {}.
EmptyDict == [k \in {} |-> 0]

(***************************************************************************)
(* The upstream's data.  A match's start time never changes upstream, so   *)
(* it is a function of the match id: odd ids start in the hour            *)
(* 2024-01-01 13h, even ids in the hour 12h.                               *)
(***************************************************************************)
MatchIds == 1..MaxMatchId

StartTimeOf(id) == 1704110400 + (id % 2) * 3600 + id * 60

\* fetch.py line 140: int(fromtimestamp(start_time).strftime("%Y%m%d%H")),
\* computed for the timestamps of 2024-01-01 (epoch 1704067200 .. +86399), TZ=UTC.
BatchTimeOf(start_time) == 2024010100 + ((start_time - 1704067200) \div 3600)

\* fetch.py line 142: str(batch_time)+"_"+str(match_id); the "_" keeps the two parts
\* apart, so the key is the pair.
KeyOf(batch_time, match_id) == <<batch_time, match_id>>

BatchTimes == {BatchTimeOf(StartTimeOf(id)) : id \in MatchIds}

\* A value for each player field, different from field to field.
FieldBase ==
    [f \in Range(PLAYER_FIELDS) |->
        10 * (CHOOSE i \in DOMAIN PLAYER_FIELDS : PLAYER_FIELDS[i] = f)]

\* A fully populated player object of the match-details response.
FullPlayer(slot, hero, leaver) ==
    [f \in Range(PLAYER_FIELDS) |->
        CASE f = "player_slot" -> slot
          [] f = "hero_id" -> hero
          [] f = "leaver_status" -> leaver
          [] OTHER -> FieldBase[f] + slot]

AbilityUpgrade(a, t, l) == [ability |-> a, time |-> t, level |-> l]

AdditionalUnit(name) ==
    [unitname |-> name, item_0 |-> 1, item_1 |-> 2, item_2 |-> 3, item_3 |-> 4,
     item_4 |-> 5, item_5 |-> 6, backpack_0 |-> 7, backpack_1 |-> 8, backpack_2 |-> 9]

\* The fields of a match-details result that process_match reads or pops.
RawMatch(id, mode, duration, lobby, players) ==
    [match_id |-> id, start_time |-> StartTimeOf(id), duration |-> duration,
     lobby_type |-> lobby, game_mode |-> mode, players |-> players,
     pre_game_duration |-> 90, positive_votes |-> 0, negative_votes |-> 0,
     match_seq_num |-> id, tower_status_radiant |-> 0, tower_status_dire |-> 0,
     barracks_status_radiant |-> 0, barracks_status_dire |-> 0]

(***************************************************************************)
(* process_match after the retry loop (fetch.py lines 132-273) as a pure   *)
(* function of the decoded response, the skill argument and batch_match.   *)
(***************************************************************************)
\* fetch.py lines 206-213: ability_upgrades mapped one to one, in order.
EncodeAbilities(p) ==
    IF "ability_upgrades" \in DOMAIN p
    THEN [i \in DOMAIN p.ability_upgrades |->
            [ability |-> p.ability_upgrades[i].ability,
             time |-> p.ability_upgrades[i].time,
             level |-> p.ability_upgrades[i].level]]
    ELSE <<>>

AU_FIELDS ==
    {"unitname", "item_0", "item_1", "item_2", "item_3", "item_4", "item_5",
     "backpack_0", "backpack_1", "backpack_2"}

\* EncodeUnits leaving the additional units out.
EncodeUnitsDropped(p) == <<>>

\* fetch.py lines 216-229: additional_units mapped one to one, in order.
EncodeUnits(p) ==
    IF "additional_units" \in DOMAIN p
    THEN [i \in DOMAIN p.additional_units |->
            [f \in AU_FIELDS |-> p.additional_units[i][f]]]
    ELSE <<>>

\* The lookups of one pass of the player loop (lines 191-229) that raise KeyError
\* when the key is missing: player_slot, hero_id, HERO_DICT[hero_id], the 29
\* PLAYER_FIELDS, and the fields of every ability upgrade and additional unit.
PlayerComplete(p) ==
    /\ Range(PLAYER_FIELDS) \subseteq DOMAIN p
    /\ p.hero_id \in HERO_DICT
    /\ "ability_upgrades" \in DOMAIN p =>
          \A i \in DOMAIN p.ability_upgrades :
              {"ability", "time", "level"} \subseteq DOMAIN p.ability_upgrades[i]
    /\ "additional_units" \in DOMAIN p =>
          \A i \in DOMAIN p.additional_units :
              AU_FIELDS \subseteq DOMAIN p.additional_units[i]

\* fetch.py lines 201-231: the dota_pb2.player built from one player object.
EncodePlayer(p) ==
    [fields |-> [f \in Range(PLAYER_FIELDS) |-> p[f]],
     ability_upgrades |-> EncodeAbilities(p),
     additional_units |-> EncodeUnits(p)]

\* fetch.py lines 185-189: the running maximum of leaver_status; a player object
\* without the field leaves it unchanged (the except: pass).
CalcLeaver(p, calc_leaver) ==
    IF "leaver_status" \in DOMAIN p /\ p.leaver_status > calc_leaver
    THEN p.leaver_status
    ELSE calc_leaver

\* fetch.py lines 182-231: the player loop from player i on.  It ends "ok" after the
\* last player, or "KeyError" at the first player object lacking a key.
RECURSIVE PlayerLoop(_, _, _, _, _)
PlayerLoop(players, i, calc_leaver, heroes, new_players) ==
    IF i > Len(players)
    THEN [status |-> "ok", calc_leaver |-> calc_leaver, heroes |-> heroes,
          new_players |-> new_players]
    ELSE LET p == players[i]
             cl == CalcLeaver(p, calc_leaver)
         IN  IF ~PlayerComplete(p)
             THEN [status |-> "KeyError", calc_leaver |-> cl, heroes |-> heroes,
                   new_players |-> new_players]
             ELSE PlayerLoop(players, i + 1, cl, heroes \cup {p.hero_id},
                             Append(new_players, EncodePlayer(p)))

\* fetch.py lines 241-255: the keys dropped from the match before it is stored.
DROPPED_KEYS ==
    {"pre_game_duration", "positive_votes", "negative_votes", "match_seq_num",
     "tower_status_radiant", "tower_status_dire", "barracks_status_radiant",
     "barracks_status_dire", "radiant_name", "dire_name"}

\* fetch.py lines 257-260: the serialized players message, lzma-compressed and
\* wrapped as a Binary.
PlayersBlob(new_players) == [lzma |-> [players |-> new_players]]

\* fetch.py lines 240-260: the item handed to put_item.  The per-hero keys
\* "hero-<slug>": True are kept as the set of hero ids present.
StoreItem(match, loop) ==
    Update(Pop(match, DROPPED_KEYS),
           [calc_leaver |-> loop.calc_leaver, heroes |-> loop.heroes,
            players |-> PlayersBlob(loop.new_players)])

\* An outcome of process_match: a return value, a raised exception, or a put_item
\* call whose result decides between the two.
Returns(code, bm, encoded) ==
    [kind |-> "return", ret |-> code, exc |-> None, batch_match |-> bm,
     encoded |-> encoded, item |-> EmptyDict]

Raises(e, bm, encoded) ==
    [kind |-> "raise", ret |-> 0, exc |-> e, batch_match |-> bm,
     encoded |-> encoded, item |-> EmptyDict]

Puts(item, bm, encoded) ==
    [kind |-> "put", ret |-> item.batch_time, exc |-> None, batch_match |-> bm,
     encoded |-> encoded, item |-> item]

\* fetch.py lines 154-162: TRUE when the mode lookup raises.
ModeUnmapped(match) == match.game_mode \notin DOMAIN MODE_ENUM

\* UnmappedMode treating the failed lookup as one more bad game mode.
UnmappedModeRejected(bm) == Returns(BAD_MODE, bm, <<>>)

\* fetch.py lines 160-162: the except branch raises (the name exceptions is not
\* defined, so what propagates is a NameError); no player has been encoded.
UnmappedMode(bm) == Raises("NameError", bm, <<>>)

\* fetch.py lines 156-157.
ModeRejected(match) == MODE_ENUM[match.game_mode] \notin ALLOWED_MODES

\* DurationRejected with the comparison off by one.
DurationRejectedInclusive(match) == match.duration <= MIN_DURATION

\* fetch.py lines 165, 170, 178, 233: the other four filter rules.
DurationRejected(match) == match.duration < MIN_DURATION

LobbyRejected(match) == match.lobby_type \in BAD_LOBBIES

PlayersMissing(match) == \E i \in DOMAIN match.players : match.players[i] = EmptyDict

LeaverRejected(calc_leaver) == calc_leaver > MAX_LEAVER

\* KeyExists with the dedup test lost: no key is ever found.
KeyExistsNever(key, bm) == FALSE

\* fetch.py line 143: the dedup test.
KeyExists(key, bm) == key \in DOMAIN bm

\* ProcessTail with the filter rules ahead of the dedup test: only a match that
\* passes every rule is looked up in batch_match and marked.
ProcessTailFilterFirst(result, skill, bm) ==
    LET match == Update(result, [api_skill |-> skill,
                                 batch_time |-> BatchTimeOf(result.start_time)])
        key == KeyOf(match.batch_time, match.match_id)
        bm1 == Update(bm, [k \in {key} |-> match.start_time])
        loop == PlayerLoop(match.players, 1, 0, {}, <<>>)
    IN  IF ModeUnmapped(match) THEN UnmappedMode(bm)
        ELSE IF ModeRejected(match) THEN Returns(BAD_MODE, bm, <<>>)
        ELSE IF DurationRejected(match) THEN Returns(SHORT_DURATION, bm, <<>>)
        ELSE IF LobbyRejected(match) THEN Returns(BAD_LOBBY, bm, <<>>)
        ELSE IF PlayersMissing(match) THEN Returns(NO_PLAYERS, bm, <<>>)
        ELSE IF loop.status = "KeyError" THEN Raises("KeyError", bm, loop.new_players)
        ELSE IF LeaverRejected(loop.calc_leaver) THEN Returns(LEAVER, bm, loop.new_players)
        ELSE IF KeyExists(key, bm) THEN Returns(KEY_EXISTS, bm, <<>>)
        ELSE Puts(StoreItem(match, loop), bm1, loop.new_players)

\* fetch.py lines 132-273.
ProcessTail(result, skill, bm) ==
    LET match == Update(result, [api_skill |-> skill,
                                 batch_time |-> BatchTimeOf(result.start_time)])
        key == KeyOf(match.batch_time, match.match_id)
        bm1 == Update(bm, [k \in {key} |-> match.start_time])
        loop == PlayerLoop(match.players, 1, 0, {}, <<>>)
    IN  IF KeyExists(key, bm) THEN Returns(KEY_EXISTS, bm, <<>>)
        ELSE IF ModeUnmapped(match) THEN UnmappedMode(bm1)
        ELSE IF ModeRejected(match) THEN Returns(BAD_MODE, bm1, <<>>)
        ELSE IF DurationRejected(match) THEN Returns(SHORT_DURATION, bm1, <<>>)
        ELSE IF LobbyRejected(match) THEN Returns(BAD_LOBBY, bm1, <<>>)
        ELSE IF PlayersMissing(match) THEN Returns(NO_PLAYERS, bm1, <<>>)
        ELSE IF loop.status = "KeyError" THEN Raises("KeyError", bm1, loop.new_players)
        ELSE IF LeaverRejected(loop.calc_leaver) THEN Returns(LEAVER, bm1, loop.new_players)
        ELSE Puts(StoreItem(match, loop), bm1, loop.new_players)

(***************************************************************************)
(* The state.                                                              *)
(***************************************************************************)
VARIABLES
    pc,                 \* where the process is: "main", "loop", "match", "retry",
                        \* "check", "stats", "write", "advance", "halted"
    exc,                \* the exception that halted the process, or None
    calls,              \* fetch_matches calls made by __main__ so far
    skill,              \* fetch_matches' skill argument
    start_at_match_id,  \* fetch_matches' paging cursor
    counter,            \* fetch_matches' counter
    history_status,     \* status_code of the last match-history response
    matches,            \* j['matches'] of the current page, as match ids
    idx,                \* position of the for loop in matches
    ms,                 \* fetch_matches' local ms: Unbound or Bound(list of ids)
    count,              \* process_match's retry count
    fetched,            \* process_match's fetched flag
    rv,                 \* process_match's rv: Unbound or Bound(status_code)
    slept,              \* the time.sleep calls of the current process_match call
    batch_time,         \* process_match's return value in fetch_matches
    row,                \* cursor.fetchone(): Unbound (None) or Bound(row)
    batch_match,        \* the global dict key -> start_time
    store,              \* the DynamoDB table: key -> item
    put_calls,          \* the keys of the put_item calls made, in order
    ledger,             \* the rows of workflow_stats, in insertion order
    result,             \* the decoded match-details result a classification runs on
    outcome,            \* the outcome of that classification
    earlier_calls,      \* fetch_matches calls made by the processes ended so far
    caller              \* the processes sharing one ledger: for each its place in
                        \* lines 292-305, its batch_time and row, and the batch
                        \* times of the successes it has recorded

vars ==
    << pc, exc, calls, skill, start_at_match_id, counter, history_status, matches, idx,
       ms, count, fetched, rv, slept, batch_time, row, batch_match, store, put_calls,
       ledger, result, outcome, earlier_calls, caller >>

\* fetch.py line 278 sets 9999999999, an id above every match id of the upstream.
InitialCursor == MaxMatchId + 1

\* fetch.py lines 331-333: the skills 1, 2, 3 in turn.
SkillOfCall(n) == (n % 3) + 1

\* The match being processed.
CurrentId == matches[idx]

CurrentKey == KeyOf(BatchTimeOf(StartTimeOf(CurrentId)), CurrentId)

(***************************************************************************)
(* The upstream.  A match-history page lists distinct match ids in         *)
(* descending order, none above the requested start_at_match_id.           *)
(***************************************************************************)
Descending(s) == \A i \in 1..(Len(s) - 1) : s[i] > s[i + 1]

Pages(cursor) ==
    {s \in UNION {[1..n -> {id \in MatchIds : id <= cursor}] : n \in 0..MaxPage} :
        Descending(s)}

\* Two players, one on each side.
GoodPlayers == <<FullPlayer(0, 1, 0), FullPlayer(5, 2, 1)>>

\* The same with an empty player object, with a leaver, with a player lacking gold.
EmptySeat == <<FullPlayer(0, 1, 0), EmptyDict>>

LeaverPlayers == <<FullPlayer(0, 1, 0), FullPlayer(5, 2, 2)>>

PartialPlayers == <<FullPlayer(0, 1, 0), Pop(FullPlayer(5, 2, 0), {"gold"})>>

\* The match-details results the upstream may give for match id: one that passes
\* every rule (with and without sub-records), one for each way of not passing.
DetailsOf(id) ==
    { RawMatch(id, 1, 1800, 0, GoodPlayers),
      RawMatch(id, 23, 1800, 0, GoodPlayers),
      RawMatch(id, 99, 1800, 0, GoodPlayers),
      RawMatch(id, 1, 600, 0, GoodPlayers),
      RawMatch(id, 1, 1800, 4, GoodPlayers),
      RawMatch(id, 1, 1800, 0, EmptySeat),
      RawMatch(id, 1, 1800, 0, LeaverPlayers),
      RawMatch(id, 1, 1800, 0, PartialPlayers) }

\* The processes that may run against one workflow database.
Callers == {1, 2}

\* A process outside lines 292-305, having recorded no success yet.
IdleCaller == [pc |-> "idle", batch_time |-> 0, row |-> Unbound, recorded |-> <<>>]

IdleCallers == [c \in Callers |-> IdleCaller]

(***************************************************************************)
(* Init: the module has been imported (lines 80-82) and __main__ has       *)
(* created the ledger table (lines 314-323).                               *)
(***************************************************************************)
Init ==
    /\ pc = "main"
    /\ exc = None
    /\ calls = 0
    /\ skill = 0
    /\ start_at_match_id = 0
    /\ counter = 0
    /\ history_status = 0
    /\ matches = <<>>
    /\ idx = 0
    /\ ms = Unbound
    /\ count = 0
    /\ fetched = FALSE
    /\ rv = Unbound
    /\ slept = <<>>
    /\ batch_time = 0
    /\ row = Unbound
    /\ batch_match = EmptyDict
    /\ store = EmptyDict
    /\ put_calls = <<>>
    /\ ledger = <<>>
    /\ result = EmptyDict
    /\ outcome = EmptyDict
    /\ earlier_calls = 0
    /\ caller = IdleCallers

process_vars == <<count, fetched, rv, slept>>
shared_vars == <<batch_match, store, put_calls, ledger>>
classify_vars == <<result, outcome>>

(***************************************************************************)
(* __main__ and fetch_matches.                                             *)
(***************************************************************************)
\* fetch.py line 333 and lines 277-280: __main__ calls fetch_matches.
CallFetchMatches ==
    /\ pc = "main"
    /\ calls < MaxCalls
    /\ calls' = calls + 1
    /\ skill' = SkillOfCall(calls)
    /\ start_at_match_id' = InitialCursor
    /\ counter' = 0
    /\ ms' = Unbound
    /\ pc' = "loop"
    /\ UNCHANGED <<exc, history_status, matches, idx, batch_time, row>>
    /\ UNCHANGED <<process_vars, shared_vars, classify_vars, earlier_calls, caller>>

\* fetch.py line 281: the loop test.
QuotaOpen(c) == c <= MATCHES_PER_HERO

\* fetch.py lines 281, 311: the loop ends and fetch_matches returns; its locals do
\* not outlive the call.
ReturnFromFetch ==
    /\ pc = "loop"
    /\ ~QuotaOpen(counter)
    /\ pc' = "main"
    /\ start_at_match_id' = 0
    /\ counter' = 0
    /\ history_status' = 0
    /\ matches' = <<>>
    /\ idx' = 0
    /\ ms' = Unbound
    /\ UNCHANGED <<exc, calls, skill, batch_time, row>>
    /\ UNCHANGED <<process_vars, shared_vars, classify_vars, earlier_calls, caller>>

\* fetch.py lines 284-291: a 200 response, num_results being the length of matches.
\* With num_results>0 the for loop starts on a fresh ms; otherwise control falls
\* through to line 308.
GetHistoryOk ==
    /\ pc = "loop"
    /\ QuotaOpen(counter)
    /\ \E page \in Pages(start_at_match_id) :
          /\ matches' = page
          /\ IF Len(page) > 0
             THEN /\ ms' = Bound(<<>>)
                  /\ idx' = 1
                  /\ pc' = "match"
             ELSE /\ ms' = ms
                  /\ idx' = 0
                  /\ pc' = "advance"
    /\ history_status' = HTTP_OK
    /\ UNCHANGED <<exc, calls, skill, start_at_match_id, counter, batch_time, row>>
    /\ UNCHANGED <<process_vars, shared_vars, classify_vars, earlier_calls, caller>>

\* fetch.py lines 284-286, 309-310: any other status prints "Bad return code" and
\* the while loop goes round again.
GetHistoryBad ==
    /\ pc = "loop"
    /\ QuotaOpen(counter)
    /\ history_status' = HTTP_UNAVAILABLE
    /\ pc' = "loop"
    /\ UNCHANGED <<exc, calls, skill, start_at_match_id, counter, matches, idx, ms,
                   batch_time, row>>
    /\ UNCHANGED <<process_vars, shared_vars, classify_vars, earlier_calls, caller>>

\* fetch.py line 284: requests.get raises; nothing catches it.
GetHistoryRaises ==
    /\ pc = "loop"
    /\ QuotaOpen(counter)
    /\ pc' = "halted"
    /\ exc' = "ConnectionError"
    /\ UNCHANGED <<calls, skill, start_at_match_id, counter, history_status, matches,
                   idx, ms, batch_time, row>>
    /\ UNCHANGED <<process_vars, shared_vars, classify_vars, earlier_calls, caller>>

fetch_vars == <<calls, skill, start_at_match_id, counter, history_status, matches, idx, ms>>

(***************************************************************************)
(* process_match: the retry loop (fetch.py lines 114-125).                 *)
(***************************************************************************)
\* fetch.py line 117: the retry loop's test.
RetryOpen(f, c) == ~f /\ c < RETRY_LIMIT

\* fetch.py line 118: the sleep before the attempt made at retry count c.
SleepBefore(c) == SLEEP_SCHEDULE[c + 1]

\* The ways one GET of the match details can end: a status, or an exception.
AttemptResults == {"ok", "bad_status", "exception"}

\* fetch.py lines 115-116: the locals on entry.
RetryEntry == [count |-> 0, fetched |-> FALSE, rv |-> Unbound, slept |-> <<>>]

\* fetch.py lines 118-125: one pass of the loop body, the GET ending as r.  An
\* exception leaves rv and fetched as they were.
RetryPass(st, r) ==
    [count |-> st.count + 1,
     fetched |-> IF r = "ok" THEN TRUE ELSE st.fetched,
     rv |-> CASE r = "ok" -> Bound(HTTP_OK)
              [] r = "bad_status" -> Bound(HTTP_UNAVAILABLE)
              [] OTHER -> st.rv,
     slept |-> Append(st.slept, SleepBefore(st.count))]

\* fetch.py lines 117-125: the whole loop, the i-th GET ending as run[i].
RECURSIVE RetryLoop(_, _)
RetryLoop(st, run) ==
    IF RetryOpen(st.fetched, st.count)
    THEN RetryLoop(RetryPass(st, run[st.count + 1]), run)
    ELSE st

\* The upstream's behaviour over the GETs of one process_match call: no failure, one
\* failure or only failures of one kind, or a bad status followed by exceptions only.
AttemptRuns ==
    {[i \in DOMAIN SLEEP_SCHEDULE |-> IF i <= k THEN f ELSE "ok"] :
        k \in {0, 1, Len(SLEEP_SCHEDULE)}, f \in {"bad_status", "exception"}}
    \cup {[i \in DOMAIN SLEEP_SCHEDULE |-> IF i = 1 THEN "bad_status" ELSE "exception"]}

\* fetch.py line 262: put_item succeeds (the item replaces any item of the same key),
\* or raises.
PutResults == {"stored", "error"}

\* PutItem losing the write: the table stays as it was.
PutItemLost(table, item) == table

\* fetch.py line 262: put_item stores the item under its key, replacing the item the
\* table may hold for that key.
PutItem(table, item) ==
    Update(table, [k \in {KeyOf(item.batch_time, item.match_id)} |-> item])

\* PutError with the exception swallowed: process_match returns as after a stored item.
PutErrorSwallowed(o) ==
    /\ pc' = "stats"
    /\ batch_time' = o.ret
    /\ UNCHANGED <<exc, store>>

\* fetch.py lines 264-270: put_item raised; after the prints and the pdb session the
\* exception is raised again and nothing catches it.
PutError(o) ==
    /\ pc' = "halted"
    /\ exc' = "StorageError"
    /\ UNCHANGED <<batch_time, store>>

\* fetch.py lines 132-273 on a 200 response: the outcome o of the pipeline takes
\* effect; a put_item call either stores the item and returns batch_time or raises
\* (after the pdb session of lines 268-270).
Apply(o) ==
    /\ batch_match' = o.batch_match
    /\ CASE o.kind = "return" ->
              /\ batch_time' = o.ret
              /\ pc' = "stats"
              /\ UNCHANGED <<exc, store, put_calls>>
         [] o.kind = "raise" ->
              /\ pc' = "halted"
              /\ exc' = o.exc
              /\ UNCHANGED <<batch_time, store, put_calls>>
         [] OTHER ->
              /\ put_calls' = Append(put_calls, KeyOf(o.item.batch_time, o.item.match_id))
              /\ \E r \in PutResults :
                    IF r = "stored"
                    THEN /\ store' = PutItem(store, o.item)
                         /\ batch_time' = o.ret
                         /\ pc' = "stats"
                         /\ exc' = exc
                    ELSE PutError(o)

\* fetch.py line 128: TRUE when the response in rv is a 200 (FALSE when rv is not
\* a 200 or was never assigned).
GotDetails(st) == st.rv = Bound(HTTP_OK)

\* fetch.py lines 127-130: the retry loop ended in st without a 200.  With rv never
\* assigned line 128 raises UnboundLocalError, otherwise process_match returns -44.
NoDetails(st) ==
    IF st.rv = Unbound
    THEN /\ pc' = "halted"
         /\ exc' = "UnboundLocalError"
         /\ UNCHANGED <<batch_time, shared_vars>>
    ELSE /\ batch_time' = BAD_HTTP
         /\ pc' = "stats"
         /\ UNCHANGED <<exc, shared_vars>>

\* fetch.py lines 132-273: the retry loop ended with a 200 whose body is d.
Details(d) ==
    /\ Apply(ProcessTail(d, skill, batch_match))
    /\ UNCHANGED ledger

\* The states the retry loop can end in.
RetryEnds == {RetryLoop(RetryEntry, run) : run \in AttemptRuns}

\* fetch.py lines 290-292 and 113-273: the for loop takes the next match, appends its
\* id to ms and calls process_match, which runs to its return or its exception.
\* count, fetched, rv and slept keep what the retry loop of this call left until
\* fetch_matches has used the return value.
ProcessMatch ==
    /\ pc = "match"
    /\ ms' = Bound(Append(ms[1], CurrentId))
    /\ \E st \in RetryEnds :
          /\ count' = st.count
          /\ fetched' = st.fetched
          /\ rv' = st.rv
          /\ slept' = st.slept
          /\ IF GotDetails(st)
             THEN \E d \in DetailsOf(CurrentId) : Details(d)
             ELSE NoDetails(st)
    /\ UNCHANGED <<row, calls, skill, start_at_match_id, counter, history_status,
                   matches, idx>>
    /\ UNCHANGED <<classify_vars, earlier_calls, caller>>

(***************************************************************************)
(* fetch_matches after process_match returned.                             *)
(***************************************************************************)
\* fetch.py line 290: the for loop goes to its next match, or ends (line 308).
AfterMatch == IF idx < Len(matches) THEN "match" ELSE "advance"

\* SelectRow finding no row, whatever the ledger holds.
SelectNone(rows, bt) == Unbound

\* fetch.py line 297-298: select ... WHERE batch_time=? and fetchone.
SelectRow(rows, bt) ==
    IF \E i \in DOMAIN rows : rows[i].batch_time = bt
    THEN Bound(rows[Min({i \in DOMAIN rows : rows[i].batch_time = bt})])
    ELSE Unbound

\* InsertRow starting the count at 0.
InsertRowZero(rows, bt) == Append(rows, [batch_time |-> bt, fetch |-> 0, pair |-> 0])

\* fetch.py line 300: INSERT (batch_time, updated_epoch, 1, 0); the wall-clock
\* column updated_epoch is left out.
InsertRow(rows, bt) == Append(rows, [batch_time |-> bt, fetch |-> 1, pair |-> 0])

\* UpdateRows without its WHERE clause: every row is updated.
UpdateEveryRow(rows, bt, r) ==
    [i \in DOMAIN rows |-> [rows[i] EXCEPT !.fetch = r.fetch + 1]]

\* fetch.py lines 303-304: UPDATE ... SET fetch=row[2]+1 WHERE batch_time=?.
UpdateRows(rows, bt, r) ==
    [i \in DOMAIN rows |->
        IF rows[i].batch_time = bt THEN [rows[i] EXCEPT !.fetch = r.fetch + 1] ELSE rows[i]]

\* WriteRow reading the row again at the time of the write, the select and the write
\* being one step.
WriteRowAtomic(rows, bt, r) ==
    IF SelectRow(rows, bt) = Unbound
    THEN InsertRow(rows, bt)
    ELSE UpdateRows(rows, bt, SelectRow(rows, bt)[1])

\* fetch.py lines 299-305: insert when fetchone gave None, update otherwise.
WriteRow(rows, bt, r) ==
    IF r = Unbound THEN InsertRow(rows, bt) ELSE UpdateRows(rows, bt, r[1])

\* fetch.py lines 297-305: the whole ledger update for one success.
RecordSuccess(rows, bt) == WriteRow(rows, bt, SelectRow(rows, bt))

\* IsSuccess taking every non-zero return value for a success.
IsSuccessNonZero(ret) == ret # 0

\* fetch.py line 295: the test for a successful return.
IsSuccess(ret) == ret > 0

\* fetch.py lines 295-298: a success; the ledger row of batch_time is read.
Select ==
    /\ pc = "stats"
    /\ IsSuccess(batch_time)
    /\ row' = SelectRow(ledger, batch_time)
    /\ pc' = "write"
    /\ UNCHANGED <<exc, batch_time, fetch_vars, process_vars, shared_vars>>
    /\ UNCHANGED <<classify_vars, earlier_calls, caller>>

\* fetch.py line 307.
Count(c) == c + 1

\* fetch.py lines 299-307: the row is inserted or updated, then counter=counter+1.
\* batch_time and row are not read again before they are reassigned.
Write ==
    /\ pc = "write"
    /\ ledger' = WriteRow(ledger, batch_time, row)
    /\ counter' = Count(counter)
    /\ idx' = IF idx < Len(matches) THEN idx + 1 ELSE idx
    /\ pc' = AfterMatch
    /\ batch_time' = 0
    /\ row' = Unbound
    /\ count' = 0
    /\ fetched' = FALSE
    /\ rv' = Unbound
    /\ slept' = <<>>
    /\ UNCHANGED <<exc, calls, skill, start_at_match_id, history_status,
                   matches, ms, batch_match, store, put_calls>>
    /\ UNCHANGED <<classify_vars, earlier_calls, caller>>

\* fetch.py lines 295, 307: no success; only counter=counter+1.
SkipStats ==
    /\ pc = "stats"
    /\ ~IsSuccess(batch_time)
    /\ counter' = Count(counter)
    /\ idx' = IF idx < Len(matches) THEN idx + 1 ELSE idx
    /\ pc' = AfterMatch
    /\ batch_time' = 0
    /\ count' = 0
    /\ fetched' = FALSE
    /\ rv' = Unbound
    /\ slept' = <<>>
    /\ UNCHANGED <<exc, row, calls, skill, start_at_match_id, history_status,
                   matches, ms>>
    /\ UNCHANGED <<shared_vars, classify_vars, earlier_calls, caller>>

\* fetch.py line 308.
NextCursor(ids) == Min(Range(ids)) - 1

\* fetch.py line 308 after a 200 response: start_at_match_id=min(ms)-1.  The page j
\* is not read again before the next response replaces it.
AdvanceCursor ==
    /\ pc = "advance"
    /\ ms # Unbound
    /\ start_at_match_id' = NextCursor(ms[1])
    /\ pc' = "loop"
    /\ matches' = <<>>
    /\ idx' = 0
    /\ UNCHANGED <<exc, batch_time, row, calls, skill, counter, history_status, ms>>
    /\ UNCHANGED <<process_vars, shared_vars, classify_vars, earlier_calls, caller>>

\* fetch.py line 308 with ms never assigned (the first page was empty):
\* UnboundLocalError.
AdvanceUnbound ==
    /\ pc = "advance"
    /\ ms = Unbound
    /\ pc' = "halted"
    /\ exc' = "UnboundLocalError"
    /\ UNCHANGED <<batch_time, row, fetch_vars, process_vars, shared_vars>>
    /\ UNCHANGED <<classify_vars, earlier_calls, caller>>

Next ==
    \/ CallFetchMatches
    \/ ReturnFromFetch
    \/ GetHistoryOk
    \/ GetHistoryBad
    \/ GetHistoryRaises
    \/ ProcessMatch
    \/ Select
    \/ Write
    \/ SkipStats
    \/ AdvanceCursor
    \/ AdvanceUnbound

Spec == Init /\ [][Next]_vars

(***************************************************************************)
(* process_match step by step: one call, one action for each pass of the   *)
(* retry loop and one for the rest of the function.                        *)
(***************************************************************************)
\* Player objects per match in the classified results (the upstream sends 10).
NumPlayers == 2

\* A player object with both optional collections.
RichPlayer ==
    Update(FullPlayer(0, 1, 0),
           [ability_upgrades |-> <<AbilityUpgrade(5003, 120, 1), AbilityUpgrade(5004, 300, 2)>>,
            additional_units |-> <<AdditionalUnit("spirit_bear")>>])

\* The player objects the upstream may send: fully populated with leaver_status 0
\* (and sub-records), 1 and 2, the empty object, one without leaver_status (a bot)
\* and one without gold.
PlayerKinds ==
    { RichPlayer, FullPlayer(5, 2, 1), FullPlayer(6, 79, 2), EmptyDict,
      Pop(FullPlayer(1, 2, 0), {"leaver_status"}), Pop(FullPlayer(7, 1, 0), {"gold"}) }

GameModes == {1, 23, 99}

Durations == {MIN_DURATION - 1, MIN_DURATION}

LobbyTypes == {-1, 0, 4, 8}

\* The match-details results the upstream may send for the classified match.
AllDetails ==
    { RawMatch(MaxMatchId, m, d, l, ps) :
        m \in GameModes, d \in Durations, l \in LobbyTypes,
        ps \in [1..NumPlayers -> PlayerKinds] }

\* batch_match with the key of result d marked by an earlier call.
SeenBefore(d) ==
    [k \in {KeyOf(BatchTimeOf(d.start_time), d.match_id)} |-> d.start_time]

\* The values of batch_match on entry: empty, or with the key of d marked by an
\* earlier call that did not halt the run (a match's details do not change upstream).
DedupStates(d) ==
    {EmptyDict} \cup
    (IF ProcessTail(d, SkillOfCall(0), EmptyDict).kind = "raise" THEN {} ELSE {SeenBefore(d)})

\* The locals of process_match as one record.
RetryState == [count |-> count, fetched |-> fetched, rv |-> rv, slept |-> slept]

\* fetch_matches has called process_match for the only match of its first page; the
\* upstream will answer a 200 with result d; when the key of d is already in
\* batch_match this is the second fetch_matches call.
EnterProcessMatch(d, bm, st, at) ==
    /\ pc = at
    /\ exc = None
    /\ calls = (IF bm = EmptyDict THEN 1 ELSE 2)
    /\ skill = SkillOfCall(calls - 1)
    /\ start_at_match_id = InitialCursor
    /\ counter = 0
    /\ history_status = HTTP_OK
    /\ matches = <<d.match_id>>
    /\ idx = 1
    /\ ms = Bound(<<d.match_id>>)
    /\ count = st.count
    /\ fetched = st.fetched
    /\ rv = st.rv
    /\ slept = st.slept
    /\ batch_time = 0
    /\ row = Unbound
    /\ batch_match = bm
    /\ store = EmptyDict
    /\ put_calls = <<>>
    /\ ledger = <<>>
    /\ result = d
    /\ outcome = EmptyDict
    /\ earlier_calls = 0
    /\ caller = IdleCallers

\* process_match is entered (line 116 done).
InitProcess ==
    \E id \in MatchIds : \E d \in DetailsOf(id) : \E bm \in DedupStates(d) :
        EnterProcessMatch(d, bm, RetryEntry, "retry")

\* The first GET has answered 200 and the retry loop has ended (line 127).
InitClassify ==
    \E d \in AllDetails : \E bm \in DedupStates(d) :
        EnterProcessMatch(d, bm, RetryPass(RetryEntry, "ok"), "check")

\* fetch.py lines 117-125: one pass of the retry loop; the loop test is taken again
\* right after count=count+1.
Attempt ==
    /\ pc = "retry"
    /\ RetryOpen(fetched, count)
    /\ \E r \in AttemptResults :
          LET st == RetryPass(RetryState, r)
          IN  /\ count' = st.count
              /\ fetched' = st.fetched
              /\ rv' = st.rv
              /\ slept' = st.slept
              /\ pc' = IF RetryOpen(st.fetched, st.count) THEN "retry" ELSE "check"
    /\ UNCHANGED <<exc, batch_time, row, fetch_vars, shared_vars>>
    /\ UNCHANGED <<classify_vars, earlier_calls, caller>>

\* fetch.py lines 127-273: the rest of process_match on the result the upstream sent.
Finish ==
    /\ pc = "check"
    /\ IF GotDetails(RetryState) THEN Details(result) ELSE NoDetails(RetryState)
    /\ outcome' = IF GotDetails(RetryState)
                  THEN ProcessTail(result, skill, batch_match)
                  ELSE outcome
    /\ UNCHANGED <<row, result, fetch_vars, process_vars, earlier_calls, caller>>

NextProcess ==
    \/ Attempt
    \/ Finish

SpecProcess == InitProcess /\ [][NextProcess]_vars

SpecClassify == InitClassify /\ [][Finish]_vars

(***************************************************************************)
(* The process is ended (killed, or halted by an exception) and started    *)
(* again.  The table behind this_aws and the workflow database are outside *)
(* the process and keep what they hold; batch_match and every local start  *)
(* anew (fetch.py lines 80-82 and 313-333 run again).                      *)
(***************************************************************************)
\* FreshCache with batch_match kept over the restart, as if it were persisted.
KeptCache == batch_match

\* fetch.py line 80: the module body binds batch_match to a new empty dict.
FreshCache == EmptyDict

\* fetch.py lines 80, 313-333, 277-292: the process is ended after a record or was
\* halted, and is started again; its first fetch_matches call gets a page with the
\* same match and calls process_match for it, the upstream sending result d.
\* put_calls keeps the calls the table has received.
RestartOn(d) ==
    /\ pc \in {"advance", "halted"}
    /\ calls + earlier_calls < MaxCalls
    /\ earlier_calls' = earlier_calls + calls
    /\ batch_match' = FreshCache
    /\ pc' = "retry"
    /\ exc' = None
    /\ calls' = 1
    /\ skill' = SkillOfCall(0)
    /\ start_at_match_id' = InitialCursor
    /\ counter' = 0
    /\ history_status' = HTTP_OK
    /\ matches' = <<d.match_id>>
    /\ idx' = 1
    /\ ms' = Bound(<<d.match_id>>)
    /\ count' = RetryEntry.count
    /\ fetched' = RetryEntry.fetched
    /\ rv' = RetryEntry.rv
    /\ slept' = RetryEntry.slept
    /\ batch_time' = 0
    /\ row' = Unbound
    /\ result' = d
    /\ outcome' = EmptyDict
    /\ UNCHANGED <<store, put_calls, ledger, caller>>

Restart == \E d \in DetailsOf(result.match_id) : RestartOn(d)

NextRestart ==
    \/ Attempt
    \/ Finish
    \/ Select
    \/ Write
    \/ SkipStats
    \/ Restart

SpecRestart == InitProcess /\ [][NextRestart]_vars

(***************************************************************************)
(* Several processes of the program run against one workflow database.     *)
(* Each is followed through lines 292-305 only: process_match returns a    *)
(* batch time, the row is selected, the row is written.  sqlite makes each *)
(* statement atomic; the select is outside the transaction of the write    *)
(* that follows it.                                                        *)
(***************************************************************************)
\* Successes recorded by each process.
MaxSuccesses == 2

\* Everything the processes of this section leave alone.
main_vars ==
    << pc, exc, fetch_vars, process_vars, batch_time, row, batch_match, store, put_calls,
       classify_vars, earlier_calls >>

\* fetch.py lines 292, 295: process_match returns a batch time to process c.
CallerSucceeds(c) ==
    /\ caller[c].pc = "idle"
    /\ Len(caller[c].recorded) < MaxSuccesses
    /\ \E bt \in BatchTimes :
          /\ IsSuccess(bt)
          /\ caller' = [caller EXCEPT ![c].pc = "stats", ![c].batch_time = bt]
    /\ UNCHANGED <<ledger, main_vars>>

\* fetch.py lines 297-298: process c reads the row of its batch time.
CallerSelect(c) ==
    /\ caller[c].pc = "stats"
    /\ caller' = [caller EXCEPT ![c].pc = "write",
                                 ![c].row = SelectRow(ledger, caller[c].batch_time)]
    /\ UNCHANGED <<ledger, main_vars>>

\* fetch.py lines 299-305: process c inserts or updates by the row it read.
CallerWrite(c) ==
    /\ caller[c].pc = "write"
    /\ ledger' = WriteRow(ledger, caller[c].batch_time, caller[c].row)
    /\ caller' = [caller EXCEPT ![c] =
                     [pc |-> "idle", batch_time |-> 0, row |-> Unbound,
                      recorded |-> Append(caller[c].recorded, caller[c].batch_time)]]
    /\ UNCHANGED main_vars

Succeed == \E c \in Callers : CallerSucceeds(c)

SelectAny == \E c \in Callers : CallerSelect(c)

WriteAny == \E c \in Callers : CallerWrite(c)

NextRace ==
    \/ Succeed
    \/ SelectAny
    \/ WriteAny

SpecRace == Init /\ [][NextRace]_vars

(***************************************************************************)
(* Properties.                                                             *)
(***************************************************************************)
\* The rows of the ledger for batch time bt.
RowsOf(rows, bt) == {i \in DOMAIN rows : rows[i].batch_time = bt}

\* The success count the ledger holds for bt, 0 when it has no entry.
CountOf(rows, bt) ==
    IF RowsOf(rows, bt) = {} THEN 0 ELSE rows[CHOOSE i \in RowsOf(rows, bt) : TRUE].fetch

\* The return values of process_match that are not a success.
NonSuccess == {BAD_MODE, SHORT_DURATION, BAD_LOBBY, NO_PLAYERS, LEAVER, KEY_EXISTS, BAD_HTTP}

\* C1: within one run no key is handed to put_item twice; a process_match call that
\* gets the details of a match whose key is not yet in batch_match marks it, and one
\* whose key is already there returns -32, with no put_item call, no store change and
\* no exception.
C1_OnePutPerKey ==
    /\ [](\A i, j \in DOMAIN put_calls : put_calls[i] = put_calls[j] => i = j)
    /\ [][(pc = "match" /\ rv' = Bound(HTTP_OK)) =>
            IF CurrentKey \in DOMAIN batch_match
            THEN /\ pc' = "stats"
                 /\ batch_time' = KEY_EXISTS
                 /\ exc' = None
                 /\ put_calls' = put_calls
                 /\ store' = store
                 /\ batch_match' = batch_match
            ELSE CurrentKey \in DOMAIN batch_match']_vars

\* A duplicate has just been skipped: its key was stored by an earlier call.
C1_Witness ==
    /\ pc = "stats"
    /\ batch_time = KEY_EXISTS
    /\ CurrentKey \in Range(put_calls)
    /\ CurrentKey \in DOMAIN store

\* C2: a process_match call that returns a success made exactly one put_item call,
\* for the key of its match, and left the ledger alone; fetch_matches then raises the
\* ledger count of that batch_time by exactly one (to 1 when there was no entry),
\* keeps one row for it and changes no row of another batch_time.
C2_PersistThenCount ==
    [][/\ (pc = "match" /\ pc' = "stats" /\ batch_time' > 0) =>
            /\ put_calls' = Append(put_calls, CurrentKey)
            /\ CurrentKey \in DOMAIN store'
            /\ batch_time' = CurrentKey[1]
            /\ ledger' = ledger
       /\ (pc = "stats" /\ batch_time > 0) =>
            /\ pc' = "write"
            /\ ledger' = ledger
            /\ put_calls' = put_calls
       /\ pc = "write" =>
            /\ put_calls' = put_calls
            /\ store' = store
            /\ CountOf(ledger', batch_time) = CountOf(ledger, batch_time) + 1
            /\ Cardinality(RowsOf(ledger', batch_time)) = 1
            /\ \A bt \in BatchTimes \ {batch_time} :
                  /\ RowsOf(ledger', bt) = RowsOf(ledger, bt)
                  /\ CountOf(ledger', bt) = CountOf(ledger, bt)]_vars

\* Two matches of different batch times have been stored and counted.
C2_Witness ==
    /\ pc = "advance"
    /\ Len(put_calls) >= 2
    /\ \E b1, b2 \in BatchTimes : b1 # b2 /\ CountOf(ledger, b1) = 1 /\ CountOf(ledger, b2) >= 1

\* C3: a process_match call that returns one of the non-success codes made no
\* put_item call and changed neither the store nor the ledger, and fetch_matches does
\* not touch the ledger for it; process_match returns nothing but these codes and
\* batch times.
C3_NoEffectOnReject ==
    /\ [](pc = "stats" => batch_time \in NonSuccess \cup BatchTimes)
    /\ [][/\ (pc = "match" /\ pc' = "stats" /\ batch_time' \in NonSuccess) =>
               /\ put_calls' = put_calls
               /\ store' = store
               /\ ledger' = ledger
          /\ (pc = "stats" /\ batch_time \in NonSuccess) =>
               /\ pc' \in {"match", "advance"}
               /\ put_calls' = put_calls
               /\ store' = store
               /\ ledger' = ledger]_vars

\* A short match has been rejected while the ledger already has an entry.
C3_Witness ==
    /\ pc = "stats"
    /\ batch_time = SHORT_DURATION
    /\ Len(ledger) > 0
    /\ store # EmptyDict

\* Successes recorded in a row for one batch time.
MaxRepeat == 3

RECURSIVE Repeat(_, _, _)
Repeat(rows, bt, n) == IF n = 0 THEN rows ELSE Repeat(RecordSuccess(rows, bt), bt, n - 1)

\* C4: from every ledger the run reaches, n ledger updates for a batch time bt add n
\* to its count, so a first success yields 1 and N further ones N+1; bt keeps one
\* row, and the rows of every other batch time stay as they were.
C4_LedgerCounts ==
    \A bt \in BatchTimes : \A n \in 1..MaxRepeat :
        LET after == Repeat(ledger, bt, n)
        IN  /\ CountOf(after, bt) = CountOf(ledger, bt) + n
            /\ RowsOf(ledger, bt) = {} => CountOf(after, bt) = n
            /\ Cardinality(RowsOf(after, bt)) = 1
            /\ \A other \in BatchTimes \ {bt} :
                  /\ RowsOf(after, other) = RowsOf(ledger, other)
                  /\ \A i \in RowsOf(ledger, other) : after[i] = ledger[i]

\* The ledger holds a count of 2 for one batch time and an entry for another.
C4_Witness ==
    \E b1, b2 \in BatchTimes : b1 # b2 /\ CountOf(ledger, b1) >= 2 /\ CountOf(ledger, b2) >= 1

(***************************************************************************)
(* The filter rules as the specification words them, on a decoded result.  *)
(***************************************************************************)
ModeMapped(d) == d.game_mode \in DOMAIN MODE_ENUM

RuleMode(d) ==
    /\ ModeMapped(d)
    /\ MODE_ENUM[d.game_mode] \in
          {"All Pick", "Captains Mode", "Random Draft", "Single Draft", "All Random",
           "Least Played"}

RuleDuration(d) == d.duration >= 1200

RuleLobby(d) == d.lobby_type \notin {-1, 4, 8}

RulePlayers(d) == \A i \in DOMAIN d.players : DOMAIN d.players[i] # {}

RuleLeaver(d) ==
    \A i \in DOMAIN d.players :
        "leaver_status" \in DOMAIN d.players[i] => d.players[i].leaver_status <= 1

\* Every player object is empty or carries the 29 fields and a known hero.
Populated(d) ==
    \A i \in DOMAIN d.players :
        \/ DOMAIN d.players[i] = {}
        \/ /\ Range(PLAYER_FIELDS) \subseteq DOMAIN d.players[i]
           /\ d.players[i].hero_id \in HERO_DICT

\* The key of result d is not in batch_match yet.
Fresh(d) == KeyOf(BatchTimeOf(d.start_time), d.match_id) \notin DOMAIN batch_match

\* process_match returns the reject code.
RejectedAs(code) == pc' = "stats" /\ batch_time' = code /\ outcome'.kind = "return"

\* What C5 says of one classification, for the results P admits.
FilterVerdict(d) ==
    /\ (RuleMode(d) /\ RuleDuration(d) /\ RuleLobby(d) /\ RulePlayers(d) /\ RuleLeaver(d))
          => (outcome'.kind = "put" /\ (pc' = "stats" => batch_time' > 0))
    /\ (~RuleMode(d) /\ RuleDuration(d) /\ RuleLobby(d) /\ RulePlayers(d) /\ RuleLeaver(d))
          => RejectedAs(BAD_MODE)
    /\ (RuleMode(d) /\ ~RuleDuration(d) /\ RuleLobby(d) /\ RulePlayers(d) /\ RuleLeaver(d))
          => RejectedAs(SHORT_DURATION)
    /\ (RuleMode(d) /\ RuleDuration(d) /\ ~RuleLobby(d) /\ RulePlayers(d) /\ RuleLeaver(d))
          => RejectedAs(BAD_LOBBY)
    /\ (RuleMode(d) /\ RuleDuration(d) /\ RuleLobby(d) /\ ~RulePlayers(d) /\ RuleLeaver(d))
          => RejectedAs(NO_PLAYERS)
    /\ (RuleMode(d) /\ RuleDuration(d) /\ RuleLobby(d) /\ RulePlayers(d) /\ ~RuleLeaver(d))
          => RejectedAs(LEAVER)

C6_UnmappedModeRaises ==
    /\ [][pc # "halted"]_vars
    /\ [][(pc = "check" /\ ~ModeMapped(result)) =>
             /\ pc' = "halted"
             /\ exc' # None
             /\ batch_time' = batch_time
             /\ outcome'.kind = "raise"
             /\ outcome'.encoded = <<>>
             /\ put_calls' = put_calls
             /\ store' = store
             /\ ledger' = ledger]_vars

\* The run has halted on game_mode 99 with nothing encoded or stored.
C6_Witness ==
    /\ pc = "halted"
    /\ exc = "NameError"
    /\ ~ModeMapped(result)
    /\ put_calls = <<>>
    /\ DOMAIN outcome # {}

\* C7 as stated: the sleeps of the retry loop are the schedule's entries in order, one
\* before each attempt; the loop goes on only while nothing was fetched, makes at most
\* 11 attempts, and when every attempt has failed all 11 entries were slept.
C7_Original ==
    /\ count <= Len(SLEEP_SCHEDULE)
    /\ slept = SubSeq(SLEEP_SCHEDULE, 1, count)
    /\ pc = "retry" => ~fetched
    /\ (pc # "retry" /\ ~fetched) => slept = SLEEP_SCHEDULE

\* C8 as stated: when the retry loop has ended without a 200, process_match returns
\* -44 and raises nothing.
C8_Original ==
    (pc \in {"stats", "halted"} /\ ~fetched) =>
        (pc = "stats" /\ batch_time = BAD_HTTP /\ exc = None)

\* C9 as stated: after every page answered with a 200 the cursor moves to the smallest
\* id of that page minus one, and so strictly decreases.
C9_Original ==
    [][pc = "advance" =>
          /\ pc' = "loop"
          /\ start_at_match_id' < start_at_match_id
          /\ matches # <<>> => start_at_match_id' = Min(Range(matches)) - 1]_vars

\* C10 as stated: fetch_matches leaves the loop only with MATCHES_PER_HERO stored
\* matches in the partition (here the first call, whose stores are all of the store),
\* and a record that was not a success does not move counter.
C10_Original ==
    [][/\ (pc = "loop" /\ pc' = "main" /\ calls = 1) =>
             Cardinality(DOMAIN store) >= MATCHES_PER_HERO
       /\ (pc = "stats" /\ batch_time \in NonSuccess) => counter' = counter]_vars

\* fetch.py lines 286-288: the last response was a 200 with num_results = 0 while the
\* quota was not reached.
NoMoreResults == pc = "advance" /\ matches = <<>> /\ QuotaOpen(counter)

\* C11 as stated, in the form a finite run can refute: once the upstream has answered
\* a 200 with no matches before the quota is reached, fetch_matches is on its way back
\* to __main__: its next step does not raise, and does not go back to the loop to ask
\* for the same cursor again.
C11_Original ==
    [][NoMoreResults =>
          /\ pc' # "halted"
          /\ pc' = "loop" => start_at_match_id' # start_at_match_id]_vars

\* C12 as stated: a match-history response with a non-success status makes
\* fetch_matches return to __main__ at once, with no record processed and no cursor
\* advanced; with such a response as the last one fetch_matches is not in its loop.
C12_Original ==
    /\ [][(pc = "loop" /\ history_status # HTTP_UNAVAILABLE
              /\ history_status' = HTTP_UNAVAILABLE) =>
             /\ pc' = "main"
             /\ put_calls' = put_calls
             /\ batch_match' = batch_match
             /\ ledger' = ledger]_vars
    /\ [](history_status = HTTP_UNAVAILABLE => pc # "loop")

\* C13: in every state of a run the ledger has at most one row for a batch time, and
\* no step removes a row or lowers its count.
C13_OneRowCountGrows ==
    /\ [](\A i, j \in DOMAIN ledger : ledger[i].batch_time = ledger[j].batch_time => i = j)
    /\ [][\A i \in DOMAIN ledger :
             /\ i \in DOMAIN ledger'
             /\ ledger'[i].batch_time = ledger[i].batch_time
             /\ ledger'[i].fetch >= ledger[i].fetch]_vars

\* Two fetch_matches calls have returned, leaving a row for each of two batch times,
\* one of them updated after its insert.
C13_Witness ==
    /\ pc = "main"
    /\ calls = 2
    /\ Len(ledger) = 2
    /\ \E i \in DOMAIN ledger : ledger[i].fetch >= 2

\* fetch.py line 262 raised: put_item was called for the current match and the table
\* does not hold its key.
PutFailed == pc = "match" /\ put_calls' # put_calls /\ CurrentKey \notin DOMAIN store'

\* C14: when put_item fails the run halts with the exception: process_match returns
\* no value, the ledger, the store and fetch_matches' counter and position in the page
\* stay as they were, and a halted run takes no further step (no later record is
\* processed).
C14_PutFailureHalts ==
    /\ [][PutFailed =>
             /\ pc' = "halted"
             /\ exc' = "StorageError"
             /\ batch_time' = batch_time
             /\ ledger' = ledger
             /\ store' = store
             /\ counter' = counter
             /\ idx' = idx]_vars
    /\ [][pc = "halted" => pc' = "halted"]_vars
    /\ [](pc = "halted" => ~ENABLED Next)

\* put_item has failed on the first match of a two-match page, after an earlier match
\* was stored and counted.
C14_Witness ==
    /\ pc = "halted"
    /\ exc = "StorageError"
    /\ idx < Len(matches)
    /\ put_calls[Len(put_calls)] \notin DOMAIN store
    /\ Len(ledger) = 1
    /\ Len(put_calls) = 2

\* The total of a list of sleeps.
RECURSIVE SumOf(_)
SumOf(s) == IF s = <<>> THEN 0 ELSE s[1] + SumOf(Tail(s))

\* C15 as stated: when the retry loop has ended with every attempt failed, the sleeps
\* it made add up to more than two hours (7200 s, in hundredths of a second).
C15_Original == (pc # "retry" /\ ~fetched) => SumOf(slept) > 7200 * 100

\* The keys the table holds for batch time bt.
StoredOf(bt) == {k \in DOMAIN store : k[1] = bt}

\* The process has been started again at least once.
Restarted == earlier_calls > 0

\* C16: a restart empties batch_match and leaves the table and the ledger as they
\* were.  The dedup test does not look at the table, so a process_match call that gets
\* the details of a stored match whose key is not in batch_match never reports a
\* duplicate; when it succeeds (which needs a restart) the put replaces the item, the
\* table keeping one item for the key, and the ledger update that follows raises the
\* count of the batch time once more.
C16_RestartDoubleCounts ==
    /\ [][earlier_calls' # earlier_calls =>
             (batch_match' = EmptyDict /\ store' = store /\ ledger' = ledger)]_vars
    /\ [][(pc = "check" /\ GotDetails(RetryState) /\ CurrentKey \in DOMAIN store
              /\ CurrentKey \notin DOMAIN batch_match /\ pc' = "stats") =>
             /\ batch_time' # KEY_EXISTS
             /\ batch_time' > 0 =>
                   /\ Restarted
                   /\ DOMAIN store' = DOMAIN store
                   /\ store'[CurrentKey] = outcome'.item
                   /\ put_calls' = Append(put_calls, CurrentKey)
                   /\ ledger' = ledger]_vars
    /\ [][(pc = "write" /\ Restarted
              /\ CurrentKey \in Range(SubSeq(put_calls, 1, Len(put_calls) - 1))) =>
             /\ CountOf(ledger', batch_time) = CountOf(ledger, batch_time) + 1
             /\ store' = store]_vars

\* After a restart a stored match has been ingested again: its batch time has one
\* stored match and a count of 2.
C16_Witness ==
    /\ pc = "advance"
    /\ Restarted
    /\ \E bt \in BatchTimes :
          /\ Cardinality(StoredOf(bt)) = 1
          /\ CountOf(ledger, bt) = 2
          /\ Len(put_calls) = 2

\* The count a reader of the ledger gets for bt (fetchone takes the first row).
ReadCount(rows, bt) ==
    IF SelectRow(rows, bt) = Unbound THEN 0 ELSE SelectRow(rows, bt)[1].fetch

\* The successes recorded for bt, cl giving the state of each process.
RecordedIn(cl, bt) ==
    LET n(c) == Cardinality({i \in DOMAIN cl[c].recorded : cl[c].recorded[i] = bt})
        RECURSIVE Total(_)
        Total(S) == IF S = {} THEN 0
                    ELSE LET c == CHOOSE x \in S : TRUE IN n(c) + Total(S \ {c})
    IN  Total(Callers)

RecordedFor(bt) == RecordedIn(caller, bt)

\* C17: the write of a ledger update uses the row its process read before, whatever
\* the ledger holds by then: after an update the count is that row's count plus one,
\* and a process that read no row inserts a row with count 1.  The count read back is
\* therefore never above the number of successes recorded (and falls below it when
\* selects and writes interleave).
C17_LostUpdate ==
    /\ [](\A bt \in BatchTimes : ReadCount(ledger, bt) <= RecordedFor(bt))
    /\ [][\A c \in Callers :
             (caller[c].pc = "write" /\ caller'[c].pc = "idle") =>
                 LET bt == caller[c].batch_time
                     r == caller[c].row
                 IN  /\ r # Unbound => ReadCount(ledger', bt) = r[1].fetch + 1
                     /\ r = Unbound =>
                           ledger' = Append(ledger, [batch_time |-> bt, fetch |-> 1, pair |-> 0])
                     /\ RecordedIn(caller', bt) = RecordedFor(bt) + 1]_vars

\* Three successes have been recorded for one batch time, two of them by updates
\* whose selects both came before either write: the one row holds a count of 2.
C17_Witness ==
    /\ \A c \in Callers : caller[c].pc = "idle"
    /\ \E bt \in BatchTimes :
          /\ RecordedFor(bt) = 3
          /\ ReadCount(ledger, bt) = 2
          /\ Len(ledger) = 1

\* The result passes the dedup test and the four rules tested before the player loop
\* (fetch.py lines 143-180): its players are encoded.
ReachesEncoder(d) ==
    Fresh(d) /\ RuleMode(d) /\ RuleDuration(d) /\ RuleLobby(d) /\ RulePlayers(d)

\* Player object p carries every field of PLAYER_FIELDS.
HasFields(p) == Range(PLAYER_FIELDS) \subseteq DOMAIN p

\* The optional collection of p, empty when p has none.
Collection(p, name) == IF name \in DOMAIN p THEN p[name] ELSE <<>>

\* Record e is player object p encoded: the 29 fields with p's values, and p's
\* ability upgrades and additional units one to one, in order.
EncodedAs(e, p) ==
    /\ DOMAIN e.fields = Range(PLAYER_FIELDS)
    /\ \A f \in Range(PLAYER_FIELDS) : e.fields[f] = p[f]
    /\ Len(e.ability_upgrades) = Len(Collection(p, "ability_upgrades"))
    /\ \A i \in DOMAIN e.ability_upgrades :
          \A f \in {"ability", "time", "level"} :
              e.ability_upgrades[i][f] = p.ability_upgrades[i][f]
    /\ Len(e.additional_units) = Len(Collection(p, "additional_units"))
    /\ \A i \in DOMAIN e.additional_units :
          /\ DOMAIN e.additional_units[i] = AU_FIELDS
          /\ \A f \in AU_FIELDS : e.additional_units[i][f] = p.additional_units[i][f]

\* C18: PLAYER_FIELDS names 29 different fields.  For a result whose players are
\* encoded: when every player object carries the 29 fields, nothing is raised and the
\* n player objects give n records in the same order, each the encoding of its player
\* object, and an accepted match is stored with exactly these records; when a player
\* object lacks one of the fields, process_match raises KeyError and put_item is not
\* called.
C18_Encoder ==
    /\ Len(PLAYER_FIELDS) = 29
    /\ Cardinality(Range(PLAYER_FIELDS)) = 29
    /\ [][(pc = "check" /\ ReachesEncoder(result)) =>
             IF \A i \in DOMAIN result.players : HasFields(result.players[i])
             THEN /\ outcome'.kind # "raise"
                  /\ Len(outcome'.encoded) = Len(result.players)
                  /\ \A i \in DOMAIN result.players :
                        EncodedAs(outcome'.encoded[i], result.players[i])
                  /\ outcome'.kind = "put" =>
                        /\ outcome'.item.players = [lzma |-> [players |-> outcome'.encoded]]
                        /\ put_calls' = Append(put_calls, CurrentKey)
             ELSE /\ pc' = "halted"
                  /\ exc' = "KeyError"
                  /\ outcome'.kind = "raise"
                  /\ put_calls' = put_calls
                  /\ store' = store]_vars

\* A match with a player that has ability upgrades and an additional unit has been
\* accepted and stored with one record for each of its players.
C18_Witness ==
    /\ pc = "stats"
    /\ batch_time > 0
    /\ outcome.kind = "put"
    /\ Len(outcome.encoded) = NumPlayers
    /\ result.players[NumPlayers] = RichPlayer
    /\ Len(outcome.encoded[NumPlayers].ability_upgrades) = 2
    /\ Len(outcome.encoded[NumPlayers].additional_units) = 1
    /\ store[CurrentKey].players = PlayersBlob(outcome.encoded)

\* The reject codes of the five filter rules.
FilterCodes == {BAD_MODE, SHORT_DURATION, BAD_LOBBY, NO_PLAYERS, LEAVER}

\* process_match has got the details of the current match and returns.
ReturnsWithDetails == pc = "match" /\ rv' = Bound(HTTP_OK) /\ pc' = "stats"

\* C19 as stated: a record rejected by a filter rule is not marked in batch_match, and
\* a record reported as a duplicate is one that was accepted (and stored) before.
C19_Original ==
    [][ReturnsWithDetails =>
          /\ batch_time' \in FilterCodes => batch_match' = batch_match
          /\ batch_time' = KEY_EXISTS => CurrentKey \in DOMAIN store]_vars

\* C19 amended: the dedup test comes before the filter rules.  Every record whose
\* details were fetched is marked in batch_match, whatever the filter says of it; a
\* reject reason is reported only for a record met for the first time in the run, and
\* a record met again is reported as a duplicate, rejected or not the first time.
C19_DedupBeforeFilter ==
    [][ReturnsWithDetails =>
          /\ CurrentKey \in DOMAIN batch_match'
          /\ batch_time' \in FilterCodes =>
                (CurrentKey \notin DOMAIN batch_match /\ store' = store)
          /\ CurrentKey \in DOMAIN batch_match =>
                (batch_time' = KEY_EXISTS /\ batch_match' = batch_match)]_vars

\* A record that was rejected the first time, and so never stored, has been met again
\* and reported as a duplicate.
C19_Witness ==
    /\ pc = "stats"
    /\ batch_time = KEY_EXISTS
    /\ CurrentKey \in DOMAIN batch_match
    /\ CurrentKey \notin DOMAIN store
    /\ CurrentKey \notin Range(put_calls)

\* fetch_matches is between two records (or the run has ended on an exception raised
\* while a record was processed): no ledger update is under way.
BetweenRecords == pc \in {"main", "loop", "match", "advance", "halted"}

\* The put_item calls that stored their item: all the calls made, but for one that
\* raised (the run halts on it, so it can only be the last).
StoreWrites == Len(put_calls) - (IF exc = "StorageError" THEN 1 ELSE 0)

\* C20: in a run that started with an empty table and an empty ledger, between two
\* records the ledger has rows for batch times only, the count of each batch time is
\* the number of match ids of that batch time in the table, and the counts add up to
\* the number of put_item calls that stored their item.
C20_CountsMatchStore ==
    BetweenRecords =>
        /\ \A i \in DOMAIN ledger : ledger[i].batch_time \in BatchTimes
        /\ \A bt \in BatchTimes :
              CountOf(ledger, bt) = Cardinality({k[2] : k \in StoredOf(bt)})
        /\ SumOf([i \in DOMAIN ledger |-> ledger[i].fetch]) = StoreWrites
        /\ StoreWrites = Cardinality(DOMAIN store)

\* A fetch_matches call has returned after storing three matches of two batch times.
C20_Witness ==
    /\ pc = "main"
    /\ Cardinality(DOMAIN store) = 3
    /\ StoreWrites = 3
    /\ \E b1, b2 \in BatchTimes :
          /\ b1 # b2
          /\ Cardinality(StoredOf(b1)) = 2
          /\ CountOf(ledger, b1) = 2
          /\ CountOf(ledger, b2) = 1

====
